---- MODULE Spec2Model ----
(***************************************************************************)
(* A model of improved-shout.py (class ShoutApp): the preferences file and *)
(* its load / merge / save cycle, the group selection, and the message     *)
(* generation with its validation.                                         *)
(*                                                                         *)
(* Python strings are sequences of one-character strings, so that          *)
(* str.strip, str.replace and the f-strings are computed character by      *)
(* character.  A Python object is a record tagged by its type (field t),   *)
(* a JSON document a record tagged by its syntax (field j): json.load and  *)
(* json.dump convert between the two.                                      *)
(***************************************************************************)
EXTENDS Integers, Sequences, FiniteSets, TLC

VARIABLES
  file,               \* the preferences file CONFIG_FILE on disk
  pc,                 \* position of the process: off, loaded, running, closed, crashed
  config,             \* self.config (a dict: key -> Python object)
  always_on_top_var,  \* self.always_on_top_var (tk.BooleanVar)
  topmost,            \* the root window's -topmost attribute
  root_bg,            \* the root window's background colour
  group_var,          \* self.group_var (tk.StringVar)
  error,              \* the exception that ended __init__, or ""
  save_warning,       \* the "Configuration Save Error" box was shown
  launches,           \* how many times the program was started
  last_pick,          \* history: << g >> for the argument g of the last set_group call of this session, or << >>
  loaded_last,        \* history: config["last_used_group"] as load_config left it in this session
  written,            \* history: the file holds what save_config wrote, untouched since
  entries,            \* the text of the four tk.Entry widgets
  entry_bg,           \* the background of the four tk.Entry widgets
  timers,             \* the callbacks pending in root.after: << entry, bg >>
  output_text,        \* the text of the output area
  msg_warning,        \* how the last generate_message call ended: "", "shown" (warning box), "ok"
  norm_pc,            \* position in the normalise / strip round trip
  norm_arg,           \* the group name handed to set_group
  norm_sel,           \* the selection set_group produced for it
  norm_back           \* what save_config's stripping made of that selection

vars == << file, pc, config, always_on_top_var, topmost, root_bg, group_var, error,
           save_warning, launches, last_pick, loaded_last, written,
           entries, entry_bg, timers, output_text, msg_warning,
           norm_pc, norm_arg, norm_sel, norm_back >>

appVars == << file, pc, config, always_on_top_var, topmost, root_bg, error,
              save_warning, launches, loaded_last, written >>
msgVars == << entries, entry_bg, timers, output_text, msg_warning >>
normVars == << norm_pc, norm_arg, norm_sel, norm_back >>

(***************************************************************************)
(* Bounds of the model.                                                    *)
(***************************************************************************)
\* longest "groups" array a hand-written preferences file holds
MaxFileGroups == 2
\* how many times the program is started one after the other
MaxLaunches == 2
\* longest group name tried in the normalise / strip round trip
MaxNameLen == 3

(***************************************************************************)
(* The class constants.                                                    *)
(***************************************************************************)
\* DEFAULT_GROUPS, in the order of the source
DEFAULT_GROUPS ==
  << <<"B","I"," ","P","r","e","m","i","u","m","_","P","i","p","e","l","i","n","e","_","O","n","c","a","l","l">>,
     <<"B","I","_","M","y","T","_","M","o","b","i","l","e">>,
     <<"B","I","_","S","C","B","P","_","S","R","T","-","O","n","c","a","l","l">>,
     <<"B","I","_","W","e","b","P","D">>,
     <<"B","o","n","d","_","D","T">>,
     <<"C","a","n","a","d","a","_","D","T">>,
     <<"C","l","a","i","m","_","D","T">>,
     <<"D","E","_","D","T">>,
     <<"I","A","M","_","D","T">>,
     <<"J","2","E","E","_","D","T">>,
     <<"P","I","_","D","T">>,
     <<"M","D","M","_","L","e","g","o","s">>,
     <<"B","I","-","C","o","n","t","r","o","l"," ","R","o","o","m">>,
     <<"C","o","r","p","T","e","c","h","_","D","T">>,
     <<"A","I","P","P">>,
     <<"E","D","&","A","_","G","E","O">>,
     <<"P","A","A","S","_","D","T">>,
     <<"U","K","_","D","T">> >>

SPECIAL_DISPLAY == <<"P","I","-","P","r","o","d","S","e","r","v","i","c","e","s">>
SPECIAL_FULL == <<"P","I","-","P","r","o","d","S","e","r","v","i","c","e","s",".","D","i","s","t","r","i","b","u","t","e","d">>
\* SPECIAL_GROUPS.items(): the pairs << display name, full name >>
SPECIAL_GROUPS == << << SPECIAL_DISPLAY, SPECIAL_FULL >> >>

\* the keys of the configuration
K_theme == <<"t","h","e","m","e">>
K_groups == <<"g","r","o","u","p","s">>
K_always_on_top == <<"a","l","w","a","y","s","_","o","n","_","t","o","p">>
K_last_used_group == <<"l","a","s","t","_","u","s","e","d","_","g","r","o","u","p">>

\* the theme names and COLOR_SCHEMES[theme]["bg"]
Dark == <<"d","a","r","k">>
Light == <<"l","i","g","h","t">>
DARK_BG == "#2E2E2E"
LIGHT_BG == "#FFFFFF"
COLOR_SCHEMES_BG == [th \in {Dark, Light} |-> IF th = Dark THEN DARK_BG ELSE LIGHT_BG]
\* COLOR_SCHEMES[theme]["entry_bg"]
ENTRY_BG == [th \in {Dark, Light} |-> IF th = Dark THEN "#444" ELSE "#DDDDDD"]
\* the background a fresh Tk root window has before apply_theme ran
TK_DEFAULT_BG == "#d9d9d9"
\* the highlight colour of highlight_empty_fields
HIGHLIGHT_BG == "#FF9999"


(***************************************************************************)
(* Python objects and JSON documents.                                      *)
(***************************************************************************)
PyStr(s)   == [t |-> "str", chars |-> s]
PyBool(b)  == [t |-> "bool", b |-> b]
PyInt(n)   == [t |-> "int", n |-> n]
PyNone     == [t |-> "None"]
PyList(l)  == [t |-> "list", items |-> l]
PyDict(d)  == [t |-> "dict", entries |-> d]

JString(s) == [j |-> "string", chars |-> s]
JTrue      == [j |-> "true"]
JFalse     == [j |-> "false"]
JNull      == [j |-> "null"]
JNumber(n) == [j |-> "number", n |-> n]
JArray(l)  == [j |-> "array", items |-> l]
JObject(m) == [j |-> "object", members |-> m]

\* json.load: the Python object a JSON document parses to
RECURSIVE json_load(_)
json_load(d) ==
  CASE d.j = "string" -> PyStr(d.chars)
    [] d.j = "true"   -> PyBool(TRUE)
    [] d.j = "false"  -> PyBool(FALSE)
    [] d.j = "null"   -> PyNone
    [] d.j = "number" -> PyInt(d.n)
    [] d.j = "array"  -> PyList([i \in DOMAIN d.items |-> json_load(d.items[i])])
    [] d.j = "object" -> PyDict([k \in DOMAIN d.members |-> json_load(d.members[k])])

\* json.dump: the JSON document a Python object is written as
RECURSIVE json_dump(_)
json_dump(o) ==
  CASE o.t = "str"  -> JString(o.chars)
    [] o.t = "bool" -> IF o.b THEN JTrue ELSE JFalse
    [] o.t = "None" -> JNull
    [] o.t = "int"  -> JNumber(o.n)
    [] o.t = "list" -> JArray([i \in DOMAIN o.items |-> json_dump(o.items[i])])
    [] o.t = "dict" -> JObject([k \in DOMAIN o.entries |-> json_dump(o.entries[k])])

\* the truth value Python gives an object in "if x:" and "not x"
Truthy(o) ==
  CASE o.t = "str"  -> o.chars # << >>
    [] o.t = "bool" -> o.b
    [] o.t = "None" -> FALSE
    [] o.t = "int"  -> o.n # 0
    [] o.t = "list" -> o.items # << >>
    [] o.t = "dict" -> DOMAIN o.entries # {}

\* a in s for two strings: a is a substring of s
IsSubstr(a, s) ==
  \E i \in 0 .. (Len(s) - Len(a)) : SubSeq(s, i + 1, i + Len(a)) = a

\* "x in c" when Python can evaluate it (c a list, a str or a dict; x a str)
PyIn(x, c) ==
  CASE c.t = "list" -> \E i \in DOMAIN c.items : c.items[i] = PyStr(x)
    [] c.t = "str"  -> IsSubstr(x, c.chars)
    [] c.t = "dict" -> x \in DOMAIN c.entries

\* the types "x in c" raises TypeError for
NotIterable == {"int", "bool", "None"}

(***************************************************************************)
(* load_config                                                             *)
(***************************************************************************)
\* (mutant) the loop without its "if name not in lst"
AppendAlways(lst, names) == lst \o [i \in DOMAIN names |-> PyStr(names[i])]

\* "for name in names: if name not in lst: lst.append(name)" on a list
RECURSIVE AppendMissing(_, _)
AppendMissing(lst, names) ==
  IF names = << >> THEN lst
  ELSE AppendMissing(IF PyIn(Head(names), PyList(lst)) THEN lst
                     ELSE Append(lst, PyStr(Head(names))),
                     Tail(names))

\* the full names of SPECIAL_GROUPS, in the dict's order
SpecialFullNames == [i \in DOMAIN SPECIAL_GROUPS |-> SPECIAL_GROUPS[i][2]]

\* (mutant) the defaults without the loop over SPECIAL_GROUPS
DefaultConfigNoSpecial ==
  [k \in {K_theme, K_groups, K_always_on_top, K_last_used_group} |->
     CASE k = K_theme           -> PyStr(Dark)
       [] k = K_groups          -> PyList([i \in DOMAIN DEFAULT_GROUPS |-> PyStr(DEFAULT_GROUPS[i])])
       [] k = K_always_on_top   -> PyBool(FALSE)
       [] k = K_last_used_group -> PyStr(<< >>)]

\* self.config as lines 84-94 build it
DefaultConfig ==
  LET groups == AppendMissing([i \in DOMAIN DEFAULT_GROUPS |-> PyStr(DEFAULT_GROUPS[i])],
                              SpecialFullNames)
  IN  [k \in {K_theme, K_groups, K_always_on_top, K_last_used_group} |->
         CASE k = K_theme           -> PyStr(Dark)
           [] k = K_groups          -> PyList(groups)
           [] k = K_always_on_top   -> PyBool(FALSE)
           [] k = K_last_used_group -> PyStr(<< >>)]

\* (mutant) the merge without the loop over SPECIAL_GROUPS
MergeGroupsNoSpecial(v) ==
  IF v.t = "list"
  THEN [exc |-> "", val |-> PyList(AppendMissing(v.items, DEFAULT_GROUPS))]
  ELSE [exc |-> "TypeError", val |-> v]

\* (mutant) the merge whose second loop lacks its "if full_name not in"
MergeGroupsSpecialAlways(v) ==
  IF v.t = "list"
  THEN [exc |-> "",
        val |-> PyList(AppendMissing(v.items, DEFAULT_GROUPS)
                         \o [i \in DOMAIN SpecialFullNames |-> PyStr(SpecialFullNames[i])])]
  ELSE [exc |-> "TypeError", val |-> v]

\* (mutant) the merge with its two loops in the other order
MergeGroupsSpecialFirst(v) ==
  IF v.t = "list"
  THEN [exc |-> "",
        val |-> PyList(AppendMissing(AppendMissing(v.items, SpecialFullNames), DEFAULT_GROUPS))]
  ELSE [exc |-> "TypeError", val |-> v]

\* lines 105-111 on v = loaded_config["groups"]: the exception raised (or "")
\* and the value loaded_config["groups"] holds afterwards
MergeGroups(v) ==
  LET names == DEFAULT_GROUPS \o SpecialFullNames IN
  CASE v.t = "list" ->
         [exc |-> "",
          val |-> PyList(AppendMissing(AppendMissing(v.items, DEFAULT_GROUPS), SpecialFullNames))]
    [] v.t \in NotIterable ->
         \* "group not in 5": argument of type 'int' is not iterable
         [exc |-> "TypeError", val |-> v]
    [] v.t \in {"str", "dict"} ->
         \* the first missing name reaches .append, which a str or a dict has not
         IF \A i \in DOMAIN names : PyIn(names[i], v)
         THEN [exc |-> "", val |-> v]
         ELSE [exc |-> "AttributeError", val |-> v]

\* dict.update(o) for an object o that is not a dict: o is iterated and every
\* element must itself be a sequence of two elements, a key and a value
PairKey(e)   == IF e.t = "list" THEN e.items[1] ELSE PyStr(<< e.chars[1] >>)
PairValue(e) == IF e.t = "list" THEN e.items[2] ELSE PyStr(<< e.chars[2] >>)
UpdateFromSequence(cfg, o) ==
  LET elems == IF o.t = "list" THEN o.items
               ELSE [i \in DOMAIN o.chars |-> PyStr(<< o.chars[i] >>)]
      IsPair(e) == \/ e.t = "list" /\ Len(e.items) = 2
                   \/ e.t = "str" /\ Len(e.chars) = 2
      keys == {PairKey(elems[i]).chars : i \in DOMAIN elems}
      Last(k) == CHOOSE i \in DOMAIN elems :
                   /\ PairKey(elems[i]).chars = k
                   /\ \A n \in DOMAIN elems : PairKey(elems[n]).chars = k => n <= i
  IN  IF \E i \in DOMAIN elems : elems[i].t \in NotIterable
      THEN [exc |-> "TypeError", cfg |-> cfg]
      ELSE IF \E i \in DOMAIN elems : ~IsPair(elems[i])
      THEN [exc |-> "ValueError", cfg |-> cfg]
      ELSE IF \E i \in DOMAIN elems : PairKey(elems[i]).t \in {"list", "dict"}
      THEN [exc |-> "TypeError", cfg |-> cfg]                 \* unhashable key
      ELSE [exc |-> "",
            cfg |-> [k \in DOMAIN cfg \cup keys |->
                       IF k \in keys THEN PairValue(elems[Last(k)]) ELSE cfg[k]]]

\* lines 103-113 on the object json.load returned: the exception that escapes
\* (none of these is a JSONDecodeError or an IOError) and self.config afterwards
Overlay(cfg, loaded) ==
  IF loaded.t \in NotIterable
  THEN [exc |-> "TypeError", cfg |-> cfg]                    \* "groups" in 5
  ELSE IF loaded.t \in {"list", "str"}
  THEN IF PyIn(K_groups, loaded)
       THEN [exc |-> "TypeError", cfg |-> cfg]               \* loaded_config["groups"]
       ELSE UpdateFromSequence(cfg, loaded)
  ELSE \* a dict
       IF K_groups \in DOMAIN loaded.entries
       THEN LET m == MergeGroups(loaded.entries[K_groups])
                merged == [loaded.entries EXCEPT ![K_groups] = m.val]
            IN  IF m.exc # ""
                THEN [exc |-> m.exc, cfg |-> cfg]
                ELSE [exc |-> "",
                      cfg |-> [k \in DOMAIN cfg \cup DOMAIN merged |->
                                 IF k \in DOMAIN merged THEN merged[k] ELSE cfg[k]]]
       ELSE [exc |-> "",
             cfg |-> [k \in DOMAIN cfg \cup DOMAIN loaded.entries |->
                        IF k \in DOMAIN loaded.entries THEN loaded.entries[k] ELSE cfg[k]]]

\* load_config on the file f: the exception that escapes it (or "") and
\* self.config as it leaves it
LoadConfigOf(f) ==
  CASE f.kind = "absent"     -> [exc |-> "", cfg |-> DefaultConfig]   \* exists() is false
    [] f.kind = "unreadable" -> [exc |-> "", cfg |-> DefaultConfig]   \* IOError, caught
    [] f.kind = "garbage"    -> [exc |-> "", cfg |-> DefaultConfig]   \* JSONDecodeError, caught
    [] f.kind = "json"       -> Overlay(DefaultConfig, json_load(f.doc))

(***************************************************************************)
(* The selection and the rest of the window's state.                       *)
(***************************************************************************)
\* the keys of self.buttons: one button per default group and per special group
\* (lines 185-198)
ButtonNames == {DEFAULT_GROUPS[i] : i \in DOMAIN DEFAULT_GROUPS}
                 \cup {SPECIAL_GROUPS[i][2] : i \in DOMAIN SPECIAL_GROUPS}

\* set_group, line 338: the selection f"@{group_name}"
SelectionOf(group_name) == << "@" >> \o group_name

\* (mutant) save_config without the replace
StripNothing(sel) == sel

\* save_config, line 128: group_var.get().replace("@", "")
IsNotMarker(c) == c # "@"
StripMarker(sel) == SelectSeq(sel, IsNotMarker)

\* is_light_mode on a root window of background bg
IsLightMode(bg) == bg = LIGHT_BG

\* (mutant) save_config without the "if self.group_var.get()"
SavedConfigNoGuard(cfg, bg, aot, sel) ==
  [cfg EXCEPT ![K_theme] = PyStr(IF IsLightMode(bg) THEN Light ELSE Dark),
              ![K_always_on_top] = PyBool(aot),
              ![K_last_used_group] = PyStr(StripMarker(sel))]

\* save_config, lines 125-128: self.config as it is written
SavedConfig(cfg, bg, aot, sel) ==
  [cfg EXCEPT ![K_theme] = PyStr(IF IsLightMode(bg) THEN Light ELSE Dark),
              ![K_always_on_top] = PyBool(aot),
              ![K_last_used_group] = IF sel # << >> THEN PyStr(StripMarker(sel)) ELSE @]

\* create_group_buttons, lines 200-203: the group restored at startup, << g >>, or << >>
RestoredGroup(cfg) ==
  LET g == cfg[K_last_used_group] IN
  IF Truthy(g) /\ g.t = "str" /\ g.chars \in ButtonNames THEN << g.chars >> ELSE << >>

\* apply_theme, line 447: COLOR_SCHEMES has the configured theme
ThemeKnown(cfg) == cfg[K_theme].t = "str" /\ cfg[K_theme].chars \in DOMAIN COLOR_SCHEMES_BG

(***************************************************************************)
(* The preferences files the program may find at its first start.          *)
(***************************************************************************)
\* a group name of the user's own
CustomGroup == <<"M","y","_","D","T">>
\* the names a hand-written "groups" array is made of
FilePool == {DEFAULT_GROUPS[Len(DEFAULT_GROUPS)], SPECIAL_FULL, CustomGroup}
SeqsUpTo(S, n) == UNION {[1 .. m -> S] : m \in 0 .. n}

Absent == [j |-> "absent"]
KeyOptions(k) ==
  CASE k = K_theme -> {Absent, JString(Light), JString(<<"b","l","u","e">>)}
    [] k = K_always_on_top -> {Absent, JTrue}
    [] k = K_last_used_group -> {Absent, JString(SPECIAL_FULL), JString(CustomGroup)}
    [] k = K_groups ->
         {Absent, JNumber(5), JNull, JString(<<"a","b">>), JObject(<< >>),
          JArray(<< JNumber(5), JString(CustomGroup) >>)}
           \cup {JArray([i \in DOMAIN q |-> JString(q[i])]) : q \in SeqsUpTo(FilePool, MaxFileGroups)}

ConfigKeys == {K_theme, K_groups, K_always_on_top, K_last_used_group}
\* the JSON object with the members chosen for the four keys, those chosen
\* Absent left out
ObjectOf(th, gr, aot, lug) ==
  LET o == [k \in ConfigKeys |->
              CASE k = K_theme           -> th
                [] k = K_groups          -> gr
                [] k = K_always_on_top   -> aot
                [] k = K_last_used_group -> lug]
  IN  JObject([k \in {x \in ConfigKeys : o[x] # Absent} |-> o[k]])
ObjectDocs ==
  {ObjectOf(th, gr, aot, lug) :
     th \in KeyOptions(K_theme), gr \in KeyOptions(K_groups),
     aot \in KeyOptions(K_always_on_top), lug \in KeyOptions(K_last_used_group)}
\* JSON documents whose top-level value is not an object
OtherDocs ==
  {JNull, JNumber(1), JTrue, JString(<< >>), JString(<<"h","i">>),
   JArray(<< >>), JArray(<< JNumber(1) >>),
   JArray(<< JArray(<< JString(K_theme), JString(Light) >>) >>)}

InitFiles ==
  {[kind |-> "absent"], [kind |-> "unreadable"], [kind |-> "garbage"]}
    \cup {[kind |-> "json", doc |-> d] : d \in ObjectDocs \cup OtherDocs}

(***************************************************************************)
(* The actions of the program's life: start, use, close.                   *)
(***************************************************************************)
NoConfig == << >>
FieldNames == {"inc_entry", "desc_entry", "problem_entry", "url_entry"}

\* the buttons the user clicks
Clicked == {DEFAULT_GROUPS[1], DEFAULT_GROUPS[Len(DEFAULT_GROUPS)], SPECIAL_FULL}

SessionReset ==
  /\ group_var' = << >>
  /\ entries' = [f \in FieldNames |-> << >>]
  /\ entry_bg' = [f \in FieldNames |-> TK_DEFAULT_BG]
  /\ timers' = {}
  /\ output_text' = << >>
  /\ msg_warning' = ""
  /\ topmost' = FALSE
  /\ root_bg' = TK_DEFAULT_BG
  /\ save_warning' = FALSE
  /\ last_pick' = << >>

\* the process starts and __init__ reaches load_config (lines 52-71, 82-119)
Start ==
  /\ pc \in {"off", "closed", "crashed"}
  /\ launches < MaxLaunches
  /\ launches' = launches + 1
  /\ SessionReset
  /\ LET r == LoadConfigOf(file) IN
       /\ error' = r.exc
       /\ pc' = IF r.exc = "" THEN "loaded" ELSE "crashed"
       /\ config' = r.cfg
       /\ loaded_last' = r.cfg[K_last_used_group]
       /\ always_on_top_var' = IF r.exc = "" /\ r.cfg[K_always_on_top].t = "bool"
                               THEN r.cfg[K_always_on_top].b ELSE FALSE
  /\ UNCHANGED << file, written, normVars >>

\* __init__ goes on: setup_ui (with the restore of the last used group) and
\* apply_theme (lines 74-80, 172-203, 445-450)
SetupUi ==
  /\ pc = "loaded"
  /\ LET g == RestoredGroup(config) IN
       /\ group_var' = IF g = << >> THEN group_var ELSE SelectionOf(g[1])
       /\ last_pick' = g
  /\ IF ThemeKnown(config)
     THEN /\ root_bg' = COLOR_SCHEMES_BG[config[K_theme].chars]
          /\ entry_bg' = [f \in FieldNames |-> ENTRY_BG[config[K_theme].chars]]
          /\ pc' = "running"
          /\ error' = error
     ELSE /\ root_bg' = root_bg
          /\ entry_bg' = entry_bg
          /\ pc' = "crashed"
          /\ error' = "KeyError"
  /\ UNCHANGED << file, config, always_on_top_var, topmost, save_warning, launches,
                  loaded_last, written, entries, timers, output_text, msg_warning,
                  normVars >>

\* a click on the button of group g: set_group(g) (lines 330-342)
SetGroup(g) ==
  /\ pc = "running"
  /\ group_var' = SelectionOf(g)
  /\ last_pick' = << g >>
  /\ UNCHANGED << appVars, msgVars, normVars >>

\* toggle_theme (lines 425-434), apply_theme included
ToggleTheme ==
  /\ pc = "running"
  /\ LET th == IF IsLightMode(root_bg) THEN Dark ELSE Light IN
       /\ config' = [config EXCEPT ![K_theme] = PyStr(th)]
       /\ root_bg' = COLOR_SCHEMES_BG[th]
       /\ entry_bg' = [f \in FieldNames |-> ENTRY_BG[th]]
  /\ UNCHANGED << file, pc, always_on_top_var, topmost, group_var, error, save_warning,
                  launches, last_pick, loaded_last, written, entries, timers,
                  output_text, msg_warning, normVars >>

\* a click on the "Always on Top" checkbox: Tk flips the variable and calls
\* toggle_always_on_top (lines 278-283, 421-423)
ClickAlwaysOnTop ==
  /\ pc = "running"
  /\ always_on_top_var' = ~always_on_top_var
  /\ topmost' = ~always_on_top_var
  /\ UNCHANGED << file, pc, config, root_bg, group_var, error, save_warning, launches,
                  last_pick, loaded_last, written, msgVars, normVars >>

\* how the write of save_config may end: done, open() raised IOError, or the
\* write raised IOError after open() truncated the file
SaveOutcomes == {"ok", "open_failed", "write_failed"}

\* on_closing: save_config, then destroy (lines 121-135, 499-502)
OnClosing(outcome) ==
  /\ pc = "running"
  /\ LET c == SavedConfig(config, root_bg, always_on_top_var, group_var) IN
       /\ config' = c
       /\ file' = CASE outcome = "ok" -> [kind |-> "json", doc |-> json_dump(PyDict(c))]
                    [] outcome = "open_failed" -> file
                    [] outcome = "write_failed" -> [kind |-> "garbage"]
  /\ written' = (outcome = "ok")
  /\ save_warning' = (outcome # "ok")
  /\ pc' = "closed"
  /\ UNCHANGED << always_on_top_var, topmost, root_bg, group_var, error, launches,
                  last_pick, loaded_last, msgVars, normVars >>

MsgIdle ==
  /\ entries = [f \in FieldNames |-> << >>]
  /\ entry_bg = [f \in FieldNames |-> TK_DEFAULT_BG]
  /\ timers = {}
  /\ output_text = << >>
  /\ msg_warning = ""
NormIdle ==
  /\ norm_pc = "idle"
  /\ norm_arg = << >>
  /\ norm_sel = << >>
  /\ norm_back = << >>

Init ==
  /\ file \in InitFiles
  /\ pc = "off"
  /\ config = NoConfig
  /\ always_on_top_var = FALSE
  /\ topmost = FALSE
  /\ root_bg = TK_DEFAULT_BG
  /\ group_var = << >>
  /\ error = ""
  /\ save_warning = FALSE
  /\ launches = 0
  /\ last_pick = << >>
  /\ loaded_last = PyNone
  /\ written = FALSE
  /\ MsgIdle
  /\ NormIdle

Next ==
  \/ Start
  \/ SetupUi
  \/ \E g \in Clicked : SetGroup(g)
  \/ ToggleTheme
  \/ ClickAlwaysOnTop
  \/ \E o \in SaveOutcomes : OnClosing(o)

Spec == Init /\ [][Next]_vars

(***************************************************************************)
(* The message form: the entries, generate_message, clear_fields.          *)
(***************************************************************************)
\* the characters str.strip() removes, among those the model types
Whitespace == {" ", "\t"}

\* str.lstrip, str.rstrip, str.strip
RECURSIVE LStrip(_)
LStrip(s) == IF s # << >> /\ Head(s) \in Whitespace THEN LStrip(Tail(s)) ELSE s
RECURSIVE RStrip(_)
RStrip(s) == IF s # << >> /\ s[Len(s)] \in Whitespace THEN RStrip(SubSeq(s, 1, Len(s) - 1)) ELSE s
Strip(s) == RStrip(LStrip(s))

\* (mutant) the f-string with the description before the problem ticket
RenderDescriptionFirst(group, inc_number, description, problem_ticket, url) ==
  group \o << " " >> \o inc_number \o << " ","P","r","o","b","l","e","m"," " >>
        \o description \o << " " >> \o problem_ticket \o << "\n", "\n" >> \o url

\* generate_message, line 363: the f-string
Render(group, inc_number, description, problem_ticket, url) ==
  group \o << " " >> \o inc_number \o << " ","P","r","o","b","l","e","m"," " >>
        \o problem_ticket \o << " " >> \o description \o << "\n", "\n" >> \o url

\* (mutant) the validation without "or not url"
MissingInformationNoUrl(group, inc_number, description, problem_ticket, url) ==
  \/ group = << >>
  \/ inc_number = << >>
  \/ description = << >>
  \/ problem_ticket = << >>

\* generate_message, line 354: the validation fails
MissingInformation(group, inc_number, description, problem_ticket, url) ==
  \/ group = << >>
  \/ inc_number = << >>
  \/ description = << >>
  \/ problem_ticket = << >>
  \/ url = << >>

\* highlight_empty_fields, lines 375-383: the entries it turns red, in the
\* order of its list
FieldOrder == << "inc_entry", "desc_entry", "problem_entry", "url_entry" >>
\* (mutant) the loop that stops at the first empty entry
EmptyFieldsFirstOnly(ents) ==
  LET IsEmpty(f) == Strip(ents[f]) = << >>
      all == SelectSeq(FieldOrder, IsEmpty)
  IN  IF all = << >> THEN << >> ELSE << Head(all) >>
EmptyFields(ents) ==
  LET IsEmpty(f) == Strip(ents[f]) = << >> IN SelectSeq(FieldOrder, IsEmpty)
InSeq(x, q) == \E i \in DOMAIN q : q[i] = x

\* what the user types into each entry
SampleTexts(f) ==
  CASE f = "inc_entry"     -> {<< >>, << " ", "1" >>}
    [] f = "desc_entry"    -> {<< >>, << "\t", " " >>, << "a", " ", "b", " " >>}
    [] f = "problem_entry" -> {<< >>, << "\t", "7", " " >>}
    [] f = "url_entry"     -> {<< >>, << "u" >>}

\* the user replaces the text of entry f by v
TypeEntry(f, v) ==
  /\ pc = "running"
  /\ entries[f] # v
  /\ entries' = [entries EXCEPT ![f] = v]
  /\ UNCHANGED << appVars, group_var, last_pick, entry_bg, timers, output_text,
                  msg_warning, normVars >>

\* generate_message (lines 344-371), highlight_empty_fields (373-388) included
GenerateMessage ==
  /\ pc = "running"
  /\ LET group          == group_var
         inc_number     == Strip(entries["inc_entry"])
         description    == Strip(entries["desc_entry"])
         problem_ticket == Strip(entries["problem_entry"])
         url            == Strip(entries["url_entry"])
     IN  IF MissingInformation(group, inc_number, description, problem_ticket, url)
         THEN /\ msg_warning' = "shown"
              /\ timers' = timers \cup {<< EmptyFields(entries)[i], entry_bg[EmptyFields(entries)[i]] >> :
                                          i \in DOMAIN EmptyFields(entries)}
              /\ entry_bg' = [f \in FieldNames |->
                                IF InSeq(f, EmptyFields(entries)) THEN HIGHLIGHT_BG
                                ELSE entry_bg[f]]
              /\ output_text' = output_text
         ELSE /\ msg_warning' = "ok"
              /\ output_text' = Render(group, inc_number, description, problem_ticket, url)
              /\ UNCHANGED << timers, entry_bg >>
  /\ UNCHANGED << appVars, group_var, last_pick, entries, normVars >>

\* a callback of root.after runs: e.config(bg=bg) (line 388).  Two pending
\* callbacks for the same entry and the same colour have the same effect, so
\* the set keeps one of them
TimerFires(t) ==
  /\ pc = "running"
  /\ t \in timers
  /\ timers' = timers \ {t}
  /\ entry_bg' = [entry_bg EXCEPT ![t[1]] = t[2]]
  /\ UNCHANGED << appVars, group_var, last_pick, entries, output_text, msg_warning, normVars >>

\* clear_fields (lines 411-419)
ClearFields ==
  /\ pc = "running"
  /\ entries' = [f \in FieldNames |-> << >>]
  /\ output_text' = << >>
  /\ UNCHANGED << appVars, group_var, last_pick, entry_bg, timers, msg_warning, normVars >>

\* the window of a program started with no preferences file, before any input
InitMsg ==
  /\ file = [kind |-> "absent"]
  /\ pc = "running"
  /\ config = DefaultConfig
  /\ always_on_top_var = FALSE
  /\ topmost = FALSE
  /\ root_bg = DARK_BG
  /\ group_var = << >>
  /\ error = ""
  /\ save_warning = FALSE
  /\ launches = 1
  /\ last_pick = << >>
  /\ loaded_last = PyStr(<< >>)
  /\ written = FALSE
  /\ entries = [f \in FieldNames |-> << >>]
  /\ entry_bg = [f \in FieldNames |-> ENTRY_BG[Dark]]
  /\ timers = {}
  /\ output_text = << >>
  /\ msg_warning = ""
  /\ NormIdle

\* the button the user clicks while composing
ClickedMsg == {DEFAULT_GROUPS[Len(DEFAULT_GROUPS)]}

NextMsg ==
  \/ \E g \in ClickedMsg : SetGroup(g)
  \/ \E f \in FieldNames : \E v \in SampleTexts(f) : TypeEntry(f, v)
  \/ GenerateMessage
  \/ \E t \in timers : TimerFires(t)
  \/ ClearFields

SpecMsg == InitMsg /\ [][NextMsg]_vars

(***************************************************************************)
(* The marker round trip on its own: set_group's selection for a name,     *)
(* then save_config's stripping of that selection.                         *)
(***************************************************************************)
NameAlphabet == {"@", "a", "-"}

InitNorm ==
  /\ file = [kind |-> "absent"]
  /\ pc = "running"
  /\ config = DefaultConfig
  /\ always_on_top_var = FALSE
  /\ topmost = FALSE
  /\ root_bg = DARK_BG
  /\ group_var = << >>
  /\ error = ""
  /\ save_warning = FALSE
  /\ launches = 1
  /\ last_pick = << >>
  /\ loaded_last = PyStr(<< >>)
  /\ written = FALSE
  /\ entries = [f \in FieldNames |-> << >>]
  /\ entry_bg = [f \in FieldNames |-> ENTRY_BG[Dark]]
  /\ timers = {}
  /\ output_text = << >>
  /\ msg_warning = ""
  /\ norm_pc = "start"
  /\ norm_arg \in SeqsUpTo(NameAlphabet, MaxNameLen) \cup ButtonNames
  /\ norm_sel = << >>
  /\ norm_back = << >>

\* set_group(norm_arg) sets the selection (line 338)
NormSelect ==
  /\ norm_pc = "start"
  /\ norm_sel' = SelectionOf(norm_arg)
  /\ norm_pc' = "selected"
  /\ UNCHANGED << appVars, group_var, last_pick, msgVars, norm_arg, norm_back >>

\* save_config derives last_used_group from the selection (lines 127-128)
NormStrip ==
  /\ norm_pc = "selected"
  /\ norm_back' = IF norm_sel # << >> THEN StripMarker(norm_sel) ELSE << >>
  /\ norm_pc' = "stripped"
  /\ UNCHANGED << appVars, group_var, last_pick, msgVars, norm_arg, norm_sel >>

NextNorm == NormSelect \/ NormStrip

SpecNorm == InitNorm /\ [][NextNorm]_vars

(***************************************************************************)
(* Properties of the preferences file's load / merge / save cycle,         *)
(* under Spec.                                                             *)
(***************************************************************************)
\* the "groups" list of a configuration, as names
GroupNamesOf(cfg) == [i \in DOMAIN cfg[K_groups].items |-> cfg[K_groups].items[i].chars]
Occurrences(names, x) == Cardinality({i \in DOMAIN names : names[i] = x})
NoDuplicates(names) == \A i, k \in DOMAIN names : names[i] = names[k] => i = k

FileIsObject == file.kind = "json" /\ file.doc.j = "object"
FileHasGroups == FileIsObject /\ K_groups \in DOMAIN file.doc.members
\* the file is a JSON object whose "groups" is an array of strings
FileHasGroupsList ==
  /\ FileHasGroups
  /\ file.doc.members[K_groups].j = "array"
  /\ \A i \in DOMAIN file.doc.members[K_groups].items :
       file.doc.members[K_groups].items[i].j = "string"
FileGroupNames ==
  [i \in DOMAIN file.doc.members[K_groups].items |-> file.doc.members[K_groups].items[i].chars]

\* the hard-coded defaults, written out
BuiltinThenSpecial == DEFAULT_GROUPS \o << SPECIAL_FULL >>
ExpectedDefaults ==
  [k \in ConfigKeys |->
     CASE k = K_theme           -> PyStr(<<"d","a","r","k">>)
       [] k = K_groups          -> PyList([i \in DOMAIN BuiltinThenSpecial |-> PyStr(BuiltinThenSpecial[i])])
       [] k = K_always_on_top   -> PyBool(FALSE)
       [] k = K_last_used_group -> PyStr(<< >>)]

\* load_config raised: __init__ ended in an exception other than apply_theme's
LoadRaised == pc = "crashed" /\ error # "KeyError"

\* C1: after load_config, for a file that is absent, an object without "groups",
\* or an object whose "groups" is a list of strings, config["groups"] holds
\* every built-in name and the special group's full name, and every entry of
\* the file's list is still there, as often as the file had it.
C1_BuiltinsAlwaysPresent ==
  (/\ pc \in {"loaded", "crashed"}
   /\ file.kind = "absent" \/ (FileIsObject /\ ~FileHasGroups) \/ FileHasGroupsList)
  => /\ ~LoadRaised
     /\ config[K_groups].t = "list"
     /\ \A g \in ButtonNames : Occurrences(GroupNamesOf(config), g) >= 1
     /\ FileHasGroupsList =>
          \A i \in DOMAIN FileGroupNames :
            Occurrences(GroupNamesOf(config), FileGroupNames[i])
              >= Occurrences(FileGroupNames, FileGroupNames[i])

\* C1's case: a file whose list lacks built-ins and brings a name of its own was loaded
C1_Witness ==
  /\ pc = "loaded"
  /\ FileHasGroupsList
  /\ FileGroupNames = << CustomGroup >>
  /\ Len(GroupNamesOf(config)) = 20

\* C2 (as claimed): load_config never raises, whatever the file holds, and a
\* file that is absent or is not JSON leaves exactly the defaults.
C2_LoadNeverRaises ==
  /\ ~LoadRaised
  /\ (pc = "loaded" /\ file.kind \in {"absent", "unreadable", "garbage"})
       => config = ExpectedDefaults

\* C3: a start that loads the file a successful save_config wrote leaves
\* self.config equal, key by key, to the configuration that was written.
C3_SaveLoadRoundTrip ==
  [][(pc = "closed" /\ written /\ launches' # launches)
       => (pc' = "loaded" /\ config' = config)]_vars

\* C3's case: the second start loaded a file written by save_config, which holds
\* a group of the user's own, a selected group and the light theme
C3_Witness ==
  /\ pc = "loaded"
  /\ written
  /\ launches = 2
  /\ FileHasGroupsList
  /\ Occurrences(GroupNamesOf(config), CustomGroup) = 1
  /\ config[K_last_used_group] = PyStr(DEFAULT_GROUPS[1])
  /\ config[K_theme] = PyStr(Light)
  /\ config[K_always_on_top] = PyBool(TRUE)

\* C8 (as claimed): after load_config no name occurs twice in config["groups"],
\* whatever "groups" array the file holds.
C8_NeverDuplicates ==
  (pc = "loaded" /\ FileHasGroupsList) => NoDuplicates(GroupNamesOf(config))

\* C8 (amended): if the file's "groups" array has no duplicates, the merged
\* list has none; in any case the merge adds a name only if it is missing.
C8_MergeAddsNoDuplicates ==
  (pc = "loaded" /\ FileHasGroupsList)
  => /\ NoDuplicates(FileGroupNames) => NoDuplicates(GroupNamesOf(config))
     /\ \A i \in DOMAIN GroupNamesOf(config) :
          Occurrences(GroupNamesOf(config), GroupNamesOf(config)[i])
            = IF Occurrences(FileGroupNames, GroupNamesOf(config)[i]) = 0 THEN 1
              ELSE Occurrences(FileGroupNames, GroupNamesOf(config)[i])

\* C8's case: a duplicate-free list that omits built-ins was merged
C8_Witness ==
  /\ pc = "loaded"
  /\ FileHasGroupsList
  /\ FileGroupNames = << CustomGroup, DEFAULT_GROUPS[Len(DEFAULT_GROUPS)] >>
  /\ Len(GroupNamesOf(config)) = 20

\* C9: once save_config has run, config["last_used_group"] is the argument of
\* the session's last set_group call (the startup restore included), without
\* the marker; with no set_group call it is what load_config produced.
C9_LastUsedGroupIsLastPick ==
  pc = "closed" =>
    IF last_pick # << >>
    THEN config[K_last_used_group] = PyStr(last_pick[1])
    ELSE config[K_last_used_group] = loaded_last

\* C9's case: a group was restored at startup, another one picked, then saved
C9_Witness ==
  /\ pc = "closed"
  /\ loaded_last = PyStr(SPECIAL_FULL)
  /\ last_pick = << DEFAULT_GROUPS[1] >>
  /\ config[K_last_used_group] = PyStr(DEFAULT_GROUPS[1])

\* C10: loading with no file gives exactly the defaults: the 18 built-in names
\* in order, then the special group's full name, dark, not on top, no last group.
C10_AbsentFileGivesDefaults ==
  (pc = "loaded" /\ file.kind = "absent")
  => /\ config = ExpectedDefaults
     /\ Len(GroupNamesOf(config)) = 19
     /\ NoDuplicates(GroupNamesOf(config))
     /\ always_on_top_var = FALSE

\* C10's case: load_config ran with no file
C10_Witness ==
  pc = "loaded" /\ file.kind = "absent" /\ launches = 1

(***************************************************************************)
(* Properties of the marker round trip, under SpecNorm.                    *)
(***************************************************************************)
NormRoundTrip == norm_sel = << "@" >> \o norm_arg /\ norm_back = norm_arg

WhitespaceOnly(s) == \A i \in DOMAIN s : s[i] \in Whitespace
\* a text without its surrounding whitespace
Trimmed(s) ==
  IF WhitespaceOnly(s) THEN << >>
  ELSE LET inner == {i \in DOMAIN s : s[i] \notin Whitespace}
           first == CHOOSE i \in inner : \A k \in inner : i <= k
           last  == CHOOSE i \in inner : \A k \in inner : k <= i
       IN  SubSeq(s, first, last)
\* the inputs that are missing: entries and, as "group_var", the selection
MissingInputs ==
  {f \in FieldNames : WhitespaceOnly(entries[f])}
    \cup (IF group_var = << >> THEN {"group_var"} ELSE {})

\* C5 (as claimed): a failed generate_message identifies every missing input,
\* the group selection included.  All the failure path shows is the warning
\* box, whose text names no input, and the highlight of entries.
C5_EveryMissingInputNamed ==
  [][(GenerateMessage /\ MissingInputs # {})
       => \A m \in MissingInputs : m \in FieldNames /\ entry_bg'[m] = HIGHLIGHT_BG]_vars

\* C5 (amended): a failed generate_message shows the warning and highlights
\* every text entry that is empty after trimming, not just the first, and no
\* other entry; an empty group selection is not identified.
C5_EveryEmptyEntryHighlighted ==
  [][(GenerateMessage /\ MissingInputs # {})
       => /\ msg_warning' = "shown"
          /\ \A f \in FieldNames :
               IF WhitespaceOnly(entries[f]) THEN entry_bg'[f] = HIGHLIGHT_BG
               ELSE entry_bg'[f] = entry_bg[f]]_vars

\* C5's case: generate_message failed with all five inputs empty
C5_Witness ==
  /\ msg_warning = "shown"
  /\ group_var = << >>
  /\ \A f \in FieldNames : WhitespaceOnly(entries[f]) /\ entry_bg[f] = HIGHLIGHT_BG
  /\ entries["desc_entry"] = << "\t", " " >>

\* C6: generate_message fails exactly when the selection is empty or one of
\* the four entries is empty after trimming; a failure leaves the output area
\* as it was, anything else produces a message.
C6_FailsExactlyOnMissingInput ==
  [][GenerateMessage
       => IF MissingInputs # {}
          THEN msg_warning' = "shown" /\ output_text' = output_text
          ELSE msg_warning' = "ok" /\ output_text' # << >>]_vars

\* C6's case: a generate_message failed on a whitespace-only entry alone, and
\* the message of an earlier call is still in the output area
C6_Witness ==
  /\ msg_warning = "shown"
  /\ group_var # << >>
  /\ MissingInputs = {"desc_entry"}
  /\ entries["desc_entry"] = << "\t", " " >>
  /\ output_text # << >>

\* C7: a successful generate_message replaces the output by selection, " ",
\* incident number, " Problem ", problem ticket, " ", description, two
\* newlines, url, the four texts trimmed and the selection as it is.
C7_RenderedExactly ==
  [][(GenerateMessage /\ MissingInputs = {})
       => output_text' =
            group_var \o << " " >> \o Trimmed(entries["inc_entry"])
              \o << " ", "P", "r", "o", "b", "l", "e", "m", " " >>
              \o Trimmed(entries["problem_entry"]) \o << " " >>
              \o Trimmed(entries["desc_entry"]) \o << "\n", "\n" >>
              \o Trimmed(entries["url_entry"])]_vars

\* C7's case: padded inputs were rendered
C7_Witness ==
  /\ msg_warning = "ok"
  /\ entries["inc_entry"] = << " ", "1" >>
  /\ entries["desc_entry"] = << "a", " ", "b", " " >>
  /\ entries["problem_entry"] = << "\t", "7", " " >>
  /\ output_text = << "@", "U", "K", "_", "D", "T", " ", "1", " ", "P", "r", "o", "b", "l", "e", "m",
                      " ", "7", " ", "a", " ", "b", "\n", "\n", "u" >>

\* the file is a JSON object whose "groups" is an array, whatever it holds
FileHasGroupsArray == FileHasGroups /\ file.doc.members[K_groups].j = "array"
\* the entries of the file's array, as Python values, in the file's order
FileGroupEntries ==
  [i \in DOMAIN file.doc.members[K_groups].items |->
     json_load(file.doc.members[K_groups].items[i])]
\* the built-in names and then the special group's name, those the file's
\* array holds left out
IsMissingFromFile(n) == \A i \in DOMAIN FileGroupEntries : FileGroupEntries[i] # PyStr(n)
MissingFromFile == SelectSeq(BuiltinThenSpecial, IsMissingFromFile)

\* C11: when the file supplies a "groups" list, load_config leaves
\* config["groups"] equal to the file's entries, in the file's order, followed
\* by the built-in names the file lacks in built-in order and then the special
\* group's name if the file lacks it; nothing the file holds is moved or added
\* again.
C11_FilePrefixThenMissing ==
  (pc = "loaded" /\ FileHasGroupsArray)
  => /\ config[K_groups].t = "list"
     /\ config[K_groups].items
          = FileGroupEntries \o [i \in DOMAIN MissingFromFile |-> PyStr(MissingFromFile[i])]

\* C11's case: a list that starts with the special group's name, goes on with
\* a name of its own and lacks every built-in was merged
C11_Witness ==
  /\ pc = "loaded"
  /\ FileHasGroupsArray
  /\ FileGroupEntries = << PyStr(SPECIAL_FULL), PyStr(CustomGroup) >>
  /\ Len(config[K_groups].items) = 20
  /\ config[K_groups].items[20] = PyStr(DEFAULT_GROUPS[Len(DEFAULT_GROUPS)])

====
